---- MODULE Spec2Model ----
(***************************************************************************)
(* Model of the Albion market tracker's trading calculator                 *)
(* (src/lib/api/trading-calculator.ts).                                    *)
(*                                                                         *)
(* The calculator is a set of pure functions.  Each function is an         *)
(* operator that computes what the TypeScript computes; the state machine  *)
(* records one call at a time: the name of the function called (op), the   *)
(* arguments it was called with and the value it returned.  A call is made *)
(* when no call is in progress (op = "none"); Return ends it.              *)
(*                                                                         *)
(* Numbers.  Prices are silver amounts, i.e. integers.  The doubles 0.025,  *)
(* 0.08 and 0.04 exceed 25/1000, 80/1000 and 40/1000 by a relative error   *)
(* of at most 2^-54.  For an integer price p in the range of market prices *)
(* (p < 2^45) the double product p * 0.025 therefore rounds to the exact   *)
(* product when that is an integer and stays strictly between the same two *)
(* integers otherwise, so Math.ceil of the double product is the ceiling   *)
(* of the exact rational p*25/1000 (resp. p*80/1000, p*40/1000).  The      *)
(* operators below use exact integer arithmetic on per-mille rates.        *)
(* profitMargin is the one value that is not an integer: it is kept as the *)
(* exact fraction num/den of the quotient the code computes (its rounding  *)
(* to a double is not modelled).                                           *)
(***************************************************************************)
EXTENDS Integers, Sequences, FiniteSets, TLC

(***************************************************************************)
(* Bounds of the model.                                                    *)
(***************************************************************************)
MaxPrice == 60
MaxLen == 3
MaxQuotes == 2

(***************************************************************************)
(* Input domains.                                                          *)
(***************************************************************************)
\* prices used by the unit tests of the calculator
SamplePrices == {100, 900, 1000, 1200, 2000}

\* the large prices of the fee and tax tests
LargePrices == {5000, 10000}

\* prices handed to calculateTradeProfit
Prices == (0 .. MaxPrice) \cup SamplePrices

\* prices handed to calculateSetupFee and calculateTransactionTax
FeePrices == Prices \cup LargePrices

\* city names of the entries handed to the route functions
Cities == {"Bridgewatch", "Lymhurst"}

\* buy prices of the entries of cityPrices ("zero or negative" included)
BuyPrices == {-1, 0, 40, 41, 1000}

\* Black Market sell prices handed to the route functions
SellPrices == {0, 45, 46, 2000}

CityPriceEntries == [city : Cities, buyPrice : BuyPrices]

\* all arrays of at most n entries
RECURSIVE ArraysUpTo(_)
ArraysUpTo(n) ==
  IF n = 0 THEN {<<>>}
  ELSE LET shorter == ArraysUpTo(n - 1)
       IN  shorter \cup {Append(a, e) : a \in {s \in shorter : Len(s) = n - 1},
                                        e \in CityPriceEntries}

CityPriceArrays == ArraysUpTo(MaxLen)

\* cities of the price records: the Black Market, which is not in
\* VALID_CITIES, and a city of VALID_CITIES
QuoteCities == {"Black Market", "Bridgewatch"}

\* buy_price_max and sell_price_min of the price records; 0 is "no data"
BuyPriceMaxes == {0, 2528, 2995}
SellPriceMins == {0, 4400, 4500}
QuoteQualities == {1, 2}

\* the fields of PriceData that the functions read
PriceData == [city : QuoteCities, quality : QuoteQualities,
              sell_price_min : SellPriceMins, buy_price_max : BuyPriceMaxes]

\* all PriceData arrays of at most n records
RECURSIVE QuotesUpTo(_)
QuotesUpTo(n) ==
  IF n = 0 THEN {<<>>}
  ELSE LET shorter == QuotesUpTo(n - 1)
       IN  shorter \cup {Append(a, e) : a \in {q \in shorter : Len(q) = n - 1},
                                        e \in PriceData}

QuoteArrays == QuotesUpTo(MaxQuotes)

(***************************************************************************)
(* Fee and tax.                                                            *)
(***************************************************************************)
\* rates in per mille: 0.025, 0.08 and 0.04
SETUP_FEE_RATE == 25
TAX_RATE == 80
TAX_RATE_PREMIUM == 40
PER_MILLE == 1000

\* Math.ceil(n / d) for an integer n and d > 0
MathCeil(n, d) == -((-n) \div d)

\* Math.floor(n / d)
MathFloor(n, d) == n \div d

calculateSetupFee_floor(price) == MathFloor(price * SETUP_FEE_RATE, PER_MILLE)

calculateSetupFee(price) == MathCeil(price * SETUP_FEE_RATE, PER_MILLE)

calculateTransactionTax_swapped(price, isPremium) ==
  LET taxRate == IF isPremium THEN TAX_RATE ELSE TAX_RATE_PREMIUM
  IN  MathCeil(price * taxRate, PER_MILLE)

calculateTransactionTax(price, isPremium) ==
  LET taxRate == IF isPremium THEN TAX_RATE_PREMIUM ELSE TAX_RATE
  IN  MathCeil(price * taxRate, PER_MILLE)

(***************************************************************************)
(* calculateTradeProfit.                                                   *)
(***************************************************************************)
\* (netProfit / totalCost) * 100 as an exact fraction
Percentage(netProfit, totalCost) == [num |-> netProfit * 100, den |-> totalCost]

calculateTradeProfit_noSetupFee(buyPrice, sellPrice, isPremium) ==
  LET setupFee       == calculateSetupFee(buyPrice)
      transactionTax == calculateTransactionTax(sellPrice, isPremium)
      totalCost      == buyPrice
      totalRevenue   == sellPrice - transactionTax
      netProfit      == totalRevenue - totalCost
      profitMargin   == Percentage(netProfit, totalCost)
  IN  [buyCity |-> "", buyPrice |-> buyPrice, sellPrice |-> sellPrice,
       setupFee |-> setupFee, transactionTax |-> transactionTax,
       netProfit |-> netProfit, profitMargin |-> profitMargin,
       isPremium |-> isPremium]

calculateTradeProfit_premiumDropped(buyPrice, sellPrice, isPremium) ==
  LET setupFee       == calculateSetupFee(buyPrice)
      transactionTax == calculateTransactionTax(sellPrice, FALSE)
      totalCost      == buyPrice + setupFee
      totalRevenue   == sellPrice - transactionTax
      netProfit      == totalRevenue - totalCost
      profitMargin   == Percentage(netProfit, totalCost)
  IN  [buyCity |-> "", buyPrice |-> buyPrice, sellPrice |-> sellPrice,
       setupFee |-> setupFee, transactionTax |-> transactionTax,
       netProfit |-> netProfit, profitMargin |-> profitMargin,
       isPremium |-> isPremium]

calculateTradeProfit(buyPrice, sellPrice, isPremium) ==
  LET setupFee       == calculateSetupFee(buyPrice)
      transactionTax == calculateTransactionTax(sellPrice, isPremium)
      totalCost      == buyPrice + setupFee
      totalRevenue   == sellPrice - transactionTax
      netProfit      == totalRevenue - totalCost
      profitMargin   == Percentage(netProfit, totalCost)
  IN  [buyCity |-> "", buyPrice |-> buyPrice, sellPrice |-> sellPrice,
       setupFee |-> setupFee, transactionTax |-> transactionTax,
       netProfit |-> netProfit, profitMargin |-> profitMargin,
       isPremium |-> isPremium]

\* the value of a TradingRoute variable that holds no route
NoRoute == calculateTradeProfit(0, 0, FALSE)

(***************************************************************************)
(* findBestTradingRoute.                                                   *)
(***************************************************************************)
\* the null of "TradingRoute | null"
Null == [null |-> TRUE]

\* if (buyPrice <= 0) continue;
SkipEntry_negativeOnly(entry) == entry.buyPrice < 0

SkipEntry(entry) == entry.buyPrice <= 0

\* route = calculateTradeProfit(...); route.buyCity = city;
RouteOf(entry, blackMarketSellPrice, premium) ==
  [calculateTradeProfit(entry.buyPrice, blackMarketSellPrice, premium)
     EXCEPT !.buyCity = entry.city]

\* route.netProfit > bestProfit, where bestProfit starts at -Infinity
IsBetter_lower(r, best) == best.negInfinity \/ r.netProfit < best.bestProfit

IsBetter_orEqual(r, best) == best.negInfinity \/ r.netProfit >= best.bestProfit

IsBetter(r, best) == best.negInfinity \/ r.netProfit > best.bestProfit

\* the loop of findBestTradingRoute over cityPrices[i..], with the values of
\* bestRoute and bestProfit in best
RECURSIVE BestRouteLoop(_, _, _, _, _)
BestRouteLoop(prices, i, blackMarketSellPrice, premium, best) ==
  IF i > Len(prices) THEN best
  ELSE IF SkipEntry(prices[i])
       THEN BestRouteLoop(prices, i + 1, blackMarketSellPrice, premium, best)
       ELSE LET r == RouteOf(prices[i], blackMarketSellPrice, premium)
            IN  IF IsBetter(r, best)
                THEN BestRouteLoop(prices, i + 1, blackMarketSellPrice, premium,
                       [bestRoute |-> r, negInfinity |-> FALSE,
                        bestProfit |-> r.netProfit])
                ELSE BestRouteLoop(prices, i + 1, blackMarketSellPrice, premium, best)

\* return bestRoute && bestRoute.netProfit > 0 ? bestRoute : null;
OnlyIfProfitable_orZero(bestRoute) ==
  IF bestRoute # Null /\ bestRoute.netProfit >= 0 THEN bestRoute ELSE Null

OnlyIfProfitable_always(bestRoute) == bestRoute

OnlyIfProfitable(bestRoute) ==
  IF bestRoute # Null /\ bestRoute.netProfit > 0 THEN bestRoute ELSE Null

findBestTradingRoute(prices, blackMarketSellPrice, premium) ==
  LET best == BestRouteLoop(prices, 1, blackMarketSellPrice, premium,
                [bestRoute |-> Null, negInfinity |-> TRUE, bestProfit |-> 0])
  IN  OnlyIfProfitable(best.bestRoute)

(***************************************************************************)
(* getAllProfitableRoutes.                                                 *)
(***************************************************************************)
\* if (route.netProfit > 0) routes.push(route);
KeepRoute_all(r) == TRUE

KeepRoute(r) == r.netProfit > 0

\* the loop of getAllProfitableRoutes over cityPrices[i..]; acc is the
\* routes array built so far
RECURSIVE ProfitableRoutesLoop(_, _, _, _, _)
ProfitableRoutesLoop(prices, i, blackMarketSellPrice, premium, acc) ==
  IF i > Len(prices) THEN acc
  ELSE IF SkipEntry(prices[i])
       THEN ProfitableRoutesLoop(prices, i + 1, blackMarketSellPrice, premium, acc)
       ELSE LET r == RouteOf(prices[i], blackMarketSellPrice, premium)
            IN  ProfitableRoutesLoop(prices, i + 1, blackMarketSellPrice, premium,
                  IF KeepRoute(r) THEN Append(acc, r) ELSE acc)

\* the comparator (a, b) => b.netProfit - a.netProfit
CompareRoutes_ascending(a, b) == a.netProfit - b.netProfit

CompareRoutes(a, b) == b.netProfit - a.netProfit

\* Array.prototype.sort is stable: an element goes after every element that
\* the comparator does not order after it.
\* StaysBefore(e, r): e, which precedes r in the array, stays before it
StaysBefore_unstable(e, r) == CompareRoutes(e, r) < 0

StaysBefore(e, r) == CompareRoutes(e, r) <= 0

RECURSIVE SortInsert(_, _)
SortInsert(sorted, r) ==
  IF sorted = <<>> THEN <<r>>
  ELSE IF StaysBefore(Head(sorted), r)
       THEN <<Head(sorted)>> \o SortInsert(Tail(sorted), r)
       ELSE <<r>> \o sorted

RECURSIVE ArraySort(_)
ArraySort(a) ==
  IF a = <<>> THEN <<>>
  ELSE SortInsert(ArraySort(SubSeq(a, 1, Len(a) - 1)), a[Len(a)])

getAllProfitableRoutes(prices, blackMarketSellPrice, premium) ==
  ArraySort(ProfitableRoutesLoop(prices, 1, blackMarketSellPrice, premium, <<>>))

(***************************************************************************)
(* analyzeProfitability.                                                   *)
(***************************************************************************)
\* the TypeError that Array.prototype.reduce throws on an empty array when
\* it is given no initial value; it leaves analyzeProfitability uncaught
TypeError == [error |-> "TypeError"]

\* cityPrices.filter((p) => p.buyPrice > 0)
ValidPrices_zeroIncluded(prices) ==
  LET IsValid(p) == p.buyPrice >= 0
  IN  SelectSeq(prices, IsValid)

ValidPrices(prices) ==
  LET IsValid(p) == p.buyPrice > 0
  IN  SelectSeq(prices, IsValid)

\* current.buyPrice < best.buyPrice
Cheaper_orEqual(current, best) == current.buyPrice <= best.buyPrice

Cheaper(current, best) == current.buyPrice < best.buyPrice

\* the reducer applied to validPrices[i..] with accumulator best
RECURSIVE CheapestLoop(_, _, _)
CheapestLoop(validPrices, i, best) ==
  IF i > Len(validPrices) THEN best
  ELSE CheapestLoop(validPrices, i + 1,
         IF Cheaper(validPrices[i], best) THEN validPrices[i] ELSE best)

\* a reduce that is given an initial value and so never throws
ReduceCheapest_initialValue(validPrices) ==
  CheapestLoop(validPrices, 1, [city |-> "", buyPrice |-> 0])

\* validPrices.reduce((best, current) => ...), without initial value: the
\* first element is the initial accumulator
ReduceCheapest(validPrices) ==
  IF Len(validPrices) = 0 THEN TypeError
  ELSE CheapestLoop(validPrices, 2, validPrices[1])

\* isProfitable: netProfit > 0
IsProfitable_orZero(netProfit) == netProfit >= 0

IsProfitable(netProfit) == netProfit > 0

analyzeProfitability(itemId, itemName, quality, prices, blackMarketSellPrice, premium) ==
  LET validPrices == ValidPrices(prices)
      bestBuyCity == ReduceCheapest(validPrices)
  IN  IF bestBuyCity = TypeError THEN TypeError
      ELSE
        LET setupFee       == calculateSetupFee(bestBuyCity.buyPrice)
            transactionTax == calculateTransactionTax(blackMarketSellPrice,
                                                      premium)
            totalCost      == bestBuyCity.buyPrice + setupFee
            totalRevenue   == blackMarketSellPrice - transactionTax
            netProfit      == totalRevenue - totalCost
            profitPercentage == Percentage(netProfit, totalCost)
        IN  [itemId |-> itemId, itemName |-> itemName, quality |-> quality,
             bestBuyCity |-> bestBuyCity.city,
             bestBuyPrice |-> bestBuyCity.buyPrice,
             blackMarketSellPrice |-> blackMarketSellPrice,
             setupFee |-> setupFee, transactionTax |-> transactionTax,
             netProfit |-> netProfit, profitPercentage |-> profitPercentage,
             isProfitable |-> IsProfitable(netProfit), isPremium |-> premium]

\* the item analysed in the tests
ItemIds == {"T4_BAG"}
ItemNames == {"T4.0 Bag"}
Qualities == {1}

(***************************************************************************)
(* Price records: findBestPrices, getAveragePrice, getBlackMarketSellPrice,*)
(* getCityPricesSorted.                                                    *)
(***************************************************************************)
VALID_CITIES ==
  <<"Bridgewatch", "Brecilien", "Caerleon", "Fort Sterling", "Lymhurst",
    "Martlock">>

\* VALID_CITIES.includes(city)
Includes(array, x) == \E k \in DOMAIN array : array[k] = x

\* a JavaScript number that may be Infinity
Num(n) == [inf |-> FALSE, n |-> n]
Infinity == [inf |-> TRUE, n |-> 0]

\* x < y for an integer x and a number y that may be Infinity
LessThan(x, y) == y.inf \/ x < y.n

\* price.buy_price_max > 0 && price.buy_price_max < bestBuy.price
BetterBuy_orEqual(p, bestBuy) ==
  p.buy_price_max > 0 /\ (bestBuy.price.inf \/ p.buy_price_max <= bestBuy.price.n)

BetterBuy_zeroAllowed(p, bestBuy) == LessThan(p.buy_price_max, bestBuy.price)

BetterBuy(p, bestBuy) ==
  p.buy_price_max > 0 /\ LessThan(p.buy_price_max, bestBuy.price)

\* price.sell_price_min > bestSell.price
BetterSell(p, bestSell) == p.sell_price_min > bestSell.price

\* the forEach of findBestPrices over prices[i..]
RECURSIVE BestPricesLoop(_, _, _)
BestPricesLoop(prices, i, best) ==
  IF i > Len(prices) THEN best
  ELSE LET p == prices[i]
           buy == IF BetterBuy(p, best.bestBuy)
                  THEN [city |-> p.city, price |-> Num(p.buy_price_max),
                        quality |-> p.quality]
                  ELSE best.bestBuy
           sell == IF BetterSell(p, best.bestSell)
                   THEN [city |-> p.city, price |-> p.sell_price_min,
                         quality |-> p.quality]
                   ELSE best.bestSell
       IN  BestPricesLoop(prices, i + 1, [bestBuy |-> buy, bestSell |-> sell])

NoBestPrices ==
  [bestBuy  |-> [city |-> "", price |-> Infinity, quality |-> 0],
   bestSell |-> [city |-> "", price |-> 0, quality |-> 0]]

findBestPrices(prices) == BestPricesLoop(prices, 1, NoBestPrices)

\* prices.reduce((acc, price) => acc + price.buy_price_max, 0)
RECURSIVE SumBuyPriceMax(_, _, _)
SumBuyPriceMax(prices, i, acc) ==
  IF i > Len(prices) THEN acc
  ELSE SumBuyPriceMax(prices, i + 1, acc + prices[i].buy_price_max)

\* a number that may be NaN
NaN == [nan |-> TRUE, n |-> 0]
Number(n) == [nan |-> FALSE, n |-> n]

\* Math.round(sum / length): the nearest integer, halves rounded up; 0 / 0
\* is NaN
MathRoundOfQuotient(sum, length) ==
  IF length = 0 THEN NaN
  ELSE Number((2 * sum + length) \div (2 * length))

getAveragePrice_noGuard(prices) ==
  MathRoundOfQuotient(SumBuyPriceMax(prices, 1, 0), Len(prices))

getAveragePrice(prices) ==
  IF Len(prices) = 0 THEN Number(0)
  ELSE MathRoundOfQuotient(SumBuyPriceMax(prices, 1, 0), Len(prices))

\* p.city === "Black Market"
IsBlackMarket_anyCity(p) == TRUE

IsBlackMarket(p) == p.city = "Black Market"

\* the forEach of getBlackMarketSellPrice over blackMarketPrices[i..]
RECURSIVE BlackMarketLoop(_, _, _)
BlackMarketLoop(blackMarketPrices, i, bestPrice) ==
  IF i > Len(blackMarketPrices) THEN bestPrice
  ELSE BlackMarketLoop(blackMarketPrices, i + 1,
         IF blackMarketPrices[i].sell_price_min > bestPrice.price
         THEN [price |-> blackMarketPrices[i].sell_price_min,
               quality |-> blackMarketPrices[i].quality]
         ELSE bestPrice)

getBlackMarketSellPrice(prices) ==
  LET blackMarketPrices == SelectSeq(prices, IsBlackMarket)
  IN  IF Len(blackMarketPrices) = 0 THEN Null
      ELSE LET bestPrice == BlackMarketLoop(blackMarketPrices, 1,
                              [price |-> 0, quality |-> 0])
           IN  IF bestPrice.price > 0 THEN bestPrice ELSE Null

\* .filter((p) => VALID_CITIES.includes(p.city))
IsValidCity(p) == Includes(VALID_CITIES, p.city)

\* .map((p) => ({ city, buyPrice: p.buy_price_max, sellPrice: p.sell_price_min }))
ToCityPrice(p) ==
  [city |-> p.city, buyPrice |-> p.buy_price_max, sellPrice |-> p.sell_price_min]

\* the comparator (a, b) => a.buyPrice - b.buyPrice
CompareCityPrices_descending(a, b) == b.buyPrice - a.buyPrice

CompareCityPrices(a, b) == a.buyPrice - b.buyPrice

\* Array.prototype.sort (stable) with CompareCityPrices
RECURSIVE CityPriceSortInsert(_, _)
CityPriceSortInsert(sorted, x) ==
  IF sorted = <<>> THEN <<x>>
  ELSE IF CompareCityPrices(Head(sorted), x) <= 0
       THEN <<Head(sorted)>> \o CityPriceSortInsert(Tail(sorted), x)
       ELSE <<x>> \o sorted

RECURSIVE CityPriceSort(_)
CityPriceSort(a) ==
  IF a = <<>> THEN <<>>
  ELSE CityPriceSortInsert(CityPriceSort(SubSeq(a, 1, Len(a) - 1)), a[Len(a)])

getCityPricesSorted(prices) ==
  LET filtered == SelectSeq(prices, IsValidCity)
      mapped   == [k \in DOMAIN filtered |-> ToCityPrice(filtered[k])]
  IN  CityPriceSort(mapped)

\* return VALID_CITIES;
getValidCities_withBlackMarket == Append(VALID_CITIES, "Black Market")

getValidCities == VALID_CITIES

(***************************************************************************)
(* The argument arrays after a call.                                       *)
(***************************************************************************)
\* for...of, forEach, filter, map, reduce and includes read their receiver
\* and leave it as it is
ReadOnly(array) == array

\* prices.sort((a, b) => a.buy_price_max - b.buy_price_max): a sort whose
\* receiver is the argument itself
RECURSIVE PricesSortInsert(_, _)
PricesSortInsert(sorted, x) ==
  IF sorted = <<>> THEN <<x>>
  ELSE IF Head(sorted).buy_price_max - x.buy_price_max <= 0
       THEN <<Head(sorted)>> \o PricesSortInsert(Tail(sorted), x)
       ELSE <<x>> \o sorted

RECURSIVE PricesSortedInPlace(_)
PricesSortedInPlace(a) ==
  IF a = <<>> THEN <<>>
  ELSE PricesSortInsert(PricesSortedInPlace(SubSeq(a, 1, Len(a) - 1)), a[Len(a)])

ArgumentAfterGetCityPricesSorted_sortedInPlace(prices) ==
  PricesSortedInPlace(prices)

\* getCityPricesSorted: sort, which reorders its receiver, is called on the
\* array that map returns, not on prices
ArgumentAfterGetCityPricesSorted(prices) == ReadOnly(prices)

\* getAllProfitableRoutes: sort is called on the local array routes, not on
\* cityPrices
ArgumentAfterGetAllProfitableRoutes(prices) == ReadOnly(prices)

(***************************************************************************)
(* State: the last call, its arguments and its result.                     *)
(***************************************************************************)
VARIABLES
  op,           \* name of the function called last
  price,        \* argument of calculateSetupFee / calculateTransactionTax
  buyPrice,     \* argument of calculateTradeProfit
  sellPrice,    \* sellPrice / blackMarketSellPrice argument
  isPremium,    \* isPremium argument
  cityPrices,   \* cityPrices argument
  fee,          \* result of calculateSetupFee
  tax,          \* result of calculateTransactionTax
  route,        \* result of calculateTradeProfit
  bestRoute,    \* result of findBestTradingRoute
  routes,       \* result of getAllProfitableRoutes
  report,       \* result of analyzeProfitability, or the error it throws
  quotes,       \* prices argument (PriceData[])
  bestPrices,   \* result of findBestPrices
  average,      \* result of getAveragePrice
  blackMarket,  \* result of getBlackMarketSellPrice
  sortedPrices, \* result of getCityPricesSorted
  validCities,  \* result of getValidCities
  snapshot      \* the array handed to the function, as it was at the call;
                \* cityPrices and quotes are that array after the call

vars == <<op, price, buyPrice, sellPrice, isPremium, cityPrices, fee, tax,
          route, bestRoute, routes, report,
          quotes, bestPrices, average, blackMarket, sortedPrices,
          validCities, snapshot>>

(***************************************************************************)
(* State of the market context (MarketProvider), of AsyncStorage and of    *)
(* the screens that call it.                                               *)
(***************************************************************************)
VARIABLES
  trackedItems,   \* state.trackedItems
  marketData,     \* state.marketData: itemId -> MarketData
  historicalData, \* state.historicalData: location -> HistoricalData
  loading,        \* state.loading
  error,          \* state.error
  lastRefresh,    \* state.lastRefresh
  storage,        \* AsyncStorage: key -> stored value
  inFlight,       \* the calls of addItem, refreshPrices and refreshHistory
                  \* that wait for a promise
  now,            \* the clock read by Date.now() and by the API server
  refreshing,     \* HomeScreen: the refreshing flag of the RefreshControl
  mounted,        \* HomeScreen: its mount effect has run
  returned        \* the call of addItem that returned in the last step

marketVars == <<trackedItems, marketData, historicalData, loading, error,
                lastRefresh, storage, inFlight, now, refreshing, mounted,
                returned>>

allVars == <<vars, marketVars>>

\* an object without keys
EmptyObject == [key \in {} |-> Null]

\* no call of addItem returned in the last step
NothingReturned ==
  [function |-> "none", outcome |-> "none", itemId |-> "", time |-> 0,
   prices |-> <<>>, queue |-> <<>>]

\* initialState, and the tracked items that loadTrackedItems found in
\* AsyncStorage and dispatched with SET_TRACKED_ITEMS
InitialContext(stored) ==
  /\ trackedItems = stored
  /\ marketData = EmptyObject
  /\ historicalData = EmptyObject
  /\ loading = FALSE
  /\ error = Null
  /\ lastRefresh = Null
  /\ storage = IF stored = <<>> THEN EmptyObject
               ELSE [key \in {"trackedItems"} |-> stored]
  /\ inFlight = {}
  /\ now = 0
  /\ refreshing = FALSE
  /\ mounted = FALSE
  /\ returned = NothingReturned

\* the state of the calculator and of the price-record functions before a
\* call
NoCall ==
  /\ op = "none"
  /\ price = 0
  /\ buyPrice = 0
  /\ sellPrice = 0
  /\ isPremium = FALSE
  /\ cityPrices = <<>>
  /\ fee = 0
  /\ tax = 0
  /\ route = NoRoute
  /\ bestRoute = Null
  /\ routes = <<>>
  /\ report = Null
  /\ quotes = <<>>
  /\ bestPrices = NoBestPrices
  /\ average = Number(0)
  /\ blackMarket = Null
  /\ sortedPrices = <<>>
  /\ validCities = <<>>
  /\ snapshot = <<>>

\* the value of the variables of the calls that are not being made
NoReport == Null

NoAnalysis == report' = NoReport

NoQuoteCall ==
  /\ quotes' = <<>>
  /\ bestPrices' = NoBestPrices
  /\ average' = Number(0)
  /\ blackMarket' = Null
  /\ sortedPrices' = <<>>

NoCalculatorCall ==
  /\ price' = 0 /\ buyPrice' = 0 /\ sellPrice' = 0 /\ isPremium' = FALSE
  /\ cityPrices' = <<>> /\ fee' = 0 /\ tax' = 0 /\ route' = NoRoute
  /\ bestRoute' = Null /\ routes' = <<>>
  /\ NoAnalysis

Init == NoCall /\ InitialContext(<<>>)

CallCalculateSetupFee ==
  /\ op = "none"
  /\ \E p \in FeePrices :
       /\ op' = "calculateSetupFee"
       /\ price' = p
       /\ fee' = calculateSetupFee(p)
       /\ buyPrice' = 0 /\ sellPrice' = 0 /\ isPremium' = FALSE
       /\ cityPrices' = <<>> /\ tax' = 0 /\ route' = NoRoute
       /\ bestRoute' = Null /\ routes' = <<>>
       /\ NoAnalysis /\ NoQuoteCall
       /\ snapshot' = <<>>
       /\ validCities' = <<>>
       /\ UNCHANGED marketVars

CallCalculateTransactionTax ==
  /\ op = "none"
  /\ \E p \in FeePrices, prem \in BOOLEAN :
       /\ op' = "calculateTransactionTax"
       /\ price' = p
       /\ isPremium' = prem
       /\ tax' = calculateTransactionTax(p, prem)
       /\ buyPrice' = 0 /\ sellPrice' = 0
       /\ cityPrices' = <<>> /\ fee' = 0 /\ route' = NoRoute
       /\ bestRoute' = Null /\ routes' = <<>>
       /\ NoAnalysis /\ NoQuoteCall
       /\ snapshot' = <<>>
       /\ validCities' = <<>>
       /\ UNCHANGED marketVars

CallCalculateTradeProfit ==
  /\ op = "none"
  /\ \E b \in Prices, s \in Prices, prem \in BOOLEAN :
       /\ op' = "calculateTradeProfit"
       /\ buyPrice' = b
       /\ sellPrice' = s
       /\ isPremium' = prem
       /\ route' = calculateTradeProfit(b, s, prem)
       /\ price' = 0 /\ cityPrices' = <<>> /\ fee' = 0 /\ tax' = 0
       /\ bestRoute' = Null /\ routes' = <<>>
       /\ NoAnalysis /\ NoQuoteCall
       /\ snapshot' = <<>>
       /\ validCities' = <<>>
       /\ UNCHANGED marketVars

CallFindBestTradingRoute ==
  /\ op = "none"
  /\ \E cp \in CityPriceArrays, s \in SellPrices, prem \in BOOLEAN :
       /\ op' = "findBestTradingRoute"
       /\ cityPrices' = ReadOnly(cp)
       /\ sellPrice' = s
       /\ isPremium' = prem
       /\ bestRoute' = findBestTradingRoute(cp, s, prem)
       /\ price' = 0 /\ buyPrice' = 0 /\ fee' = 0 /\ tax' = 0
       /\ route' = NoRoute /\ routes' = <<>>
       /\ NoAnalysis /\ NoQuoteCall
       /\ snapshot' = cp
       /\ validCities' = <<>>
       /\ UNCHANGED marketVars

CallGetAllProfitableRoutes ==
  /\ op = "none"
  /\ \E cp \in CityPriceArrays, s \in SellPrices, prem \in BOOLEAN :
       /\ op' = "getAllProfitableRoutes"
       /\ cityPrices' = ArgumentAfterGetAllProfitableRoutes(cp)
       /\ sellPrice' = s
       /\ isPremium' = prem
       /\ routes' = getAllProfitableRoutes(cp, s, prem)
       /\ price' = 0 /\ buyPrice' = 0 /\ fee' = 0 /\ tax' = 0
       /\ route' = NoRoute /\ bestRoute' = Null
       /\ NoAnalysis /\ NoQuoteCall
       /\ snapshot' = cp
       /\ validCities' = <<>>
       /\ UNCHANGED marketVars

CallAnalyzeProfitability ==
  /\ op = "none"
  /\ \E id \in ItemIds, name \in ItemNames, q \in Qualities,
        cp \in CityPriceArrays, s \in SellPrices, prem \in BOOLEAN :
       /\ op' = "analyzeProfitability"
       /\ cityPrices' = ReadOnly(cp)
       /\ sellPrice' = s
       /\ isPremium' = prem
       /\ report' = analyzeProfitability(id, name, q, cp, s, prem)
       /\ price' = 0 /\ buyPrice' = 0 /\ fee' = 0 /\ tax' = 0
       /\ route' = NoRoute /\ bestRoute' = Null /\ routes' = <<>>
       /\ NoQuoteCall
       /\ snapshot' = cp
       /\ validCities' = <<>>
       /\ UNCHANGED marketVars

CallFindBestPrices ==
  /\ op = "none"
  /\ \E q \in QuoteArrays :
       /\ op' = "findBestPrices"
       /\ quotes' = ReadOnly(q)
       /\ bestPrices' = findBestPrices(q)
       /\ average' = Number(0) /\ blackMarket' = Null /\ sortedPrices' = <<>>
       /\ NoCalculatorCall
       /\ snapshot' = q
       /\ validCities' = <<>>
       /\ UNCHANGED marketVars

CallGetAveragePrice ==
  /\ op = "none"
  /\ \E q \in QuoteArrays :
       /\ op' = "getAveragePrice"
       /\ quotes' = ReadOnly(q)
       /\ average' = getAveragePrice(q)
       /\ bestPrices' = NoBestPrices /\ blackMarket' = Null
       /\ sortedPrices' = <<>>
       /\ NoCalculatorCall
       /\ snapshot' = q
       /\ validCities' = <<>>
       /\ UNCHANGED marketVars

CallGetBlackMarketSellPrice ==
  /\ op = "none"
  /\ \E q \in QuoteArrays :
       /\ op' = "getBlackMarketSellPrice"
       /\ quotes' = ReadOnly(q)
       /\ blackMarket' = getBlackMarketSellPrice(q)
       /\ bestPrices' = NoBestPrices /\ average' = Number(0)
       /\ sortedPrices' = <<>>
       /\ NoCalculatorCall
       /\ snapshot' = q
       /\ validCities' = <<>>
       /\ UNCHANGED marketVars

CallGetCityPricesSorted ==
  /\ op = "none"
  /\ \E q \in QuoteArrays :
       /\ op' = "getCityPricesSorted"
       /\ quotes' = ArgumentAfterGetCityPricesSorted(q)
       /\ sortedPrices' = getCityPricesSorted(q)
       /\ bestPrices' = NoBestPrices /\ average' = Number(0)
       /\ blackMarket' = Null
       /\ NoCalculatorCall
       /\ snapshot' = q
       /\ validCities' = <<>>
       /\ UNCHANGED marketVars

CallGetValidCities ==
  /\ op = "none"
  /\ op' = "getValidCities"
  /\ validCities' = getValidCities
  /\ NoCalculatorCall /\ NoQuoteCall
  /\ snapshot' = <<>>
  /\ UNCHANGED marketVars

\* the call returns; its arguments and result are dropped
Return ==
  /\ op # "none"
  /\ op' = "none"
  /\ price' = 0 /\ buyPrice' = 0 /\ sellPrice' = 0 /\ isPremium' = FALSE
  /\ cityPrices' = <<>> /\ fee' = 0 /\ tax' = 0 /\ route' = NoRoute
  /\ bestRoute' = Null /\ routes' = <<>>
  /\ NoAnalysis /\ NoQuoteCall
  /\ snapshot' = <<>>
  /\ validCities' = <<>>
  /\ UNCHANGED marketVars

Next ==
  \/ CallCalculateSetupFee
  \/ CallCalculateTransactionTax
  \/ CallCalculateTradeProfit
  \/ CallFindBestTradingRoute
  \/ CallGetAllProfitableRoutes
  \/ CallAnalyzeProfitability
  \/ CallFindBestPrices
  \/ CallGetAveragePrice
  \/ CallGetBlackMarketSellPrice
  \/ CallGetCityPricesSorted
  \/ CallGetValidCities
  \/ Return

Spec == Init /\ [][Next]_allVars

(***************************************************************************)
(* The market context: marketReducer, MarketProvider and the screens that  *)
(* call it.                                                                *)
(***************************************************************************)
\* calls of addItem, refreshPrices and refreshHistory that a behaviour starts
MaxCalls == 2

\* items of AVAILABLE_ITEMS
AvailableItems == {"T4_BAG", "T5_BAG"}

\* the lists of items that the Add Item screen hands to addItem: the
\* selected items, in the order of selection
SelectedItems ==
  {<<a>> : a \in AvailableItems}
    \cup {pair \in AvailableItems \X AvailableItems : pair[1] # pair[2]}

\* a string, as the sequence of its parts
Parts(string) == <<string>>

\* the template literal `${itemId}-${Date.now()}`, as the sequence of its
\* parts
TemplateId(itemId, time) == <<itemId, "-", time>>

\* the TrackedItem that addItem creates; name and tier are functions of
\* itemId and addedAt is the clock, and the context reads none of them
TrackedItem(itemId, time) ==
  [id |-> TemplateId(itemId, time), itemId |-> itemId]

\* the lists that loadTrackedItems can find in AsyncStorage at mount
StoredLists == {<<>>, <<TrackedItem("T4_BAG", 0)>>}

\* state.trackedItems.map((item) => item.itemId)
ItemIdsOf(items) == [k \in DOMAIN items |-> items[k].itemId]

(***************************************************************************)
(* The price API.                                                          *)
(***************************************************************************)
\* the cities for which the server holds a record of an item: the Black
\* Market alone, or the Black Market and a city of VALID_CITIES
ServerCities == {<<"Black Market">>, <<"Black Market", "Caerleon">>}

\* what the server holds for each item when it answers
ServerAnswers == [AvailableItems -> ServerCities]

\* a record of response.data; the server dates it with the time of the
\* request
ApiRecord(itemId, city, time) ==
  [item_id |-> itemId, city |-> city, quality |-> 1,
   sell_price_min |-> 4500, buy_price_max |-> 2528,
   buy_price_max_date |-> time]

\* response.data of GET /prices/<itemIds joined by ",">
RECURSIVE ResponseData(_, _, _)
ResponseData(itemIds, answer, time) ==
  IF itemIds = <<>> THEN <<>>
  ELSE LET cities == answer[Head(itemIds)]
       IN  [k \in DOMAIN cities |-> ApiRecord(Head(itemIds), cities[k], time)]
             \o ResponseData(Tail(itemIds), answer, time)

\* return response.data.filter((price) => VALID_CITIES.includes(price.city));
fetchCurrentPrices_unfiltered(data) == data

fetchCurrentPrices(data) == SelectSeq(data, IsValidCity)

\* throw new Error(`API error: ${...}`) of fetchCurrentPrices
ApiError == [message |-> "API error: Network Error"]

\* response.data of GET /history/...
HistoryAnswers ==
  {<<>>, <<[location |-> "Caerleon", avg_price |-> 2528]>>}

(***************************************************************************)
(* marketReducer.                                                          *)
(***************************************************************************)
\* state.trackedItems.filter((item) => item.id !== action.payload)
WithoutItem(items, id) ==
  LET Other(item) == item.id # id
  IN  SelectSeq(items, Other)

\* .filter(([key]) => key !== action.payload)
KeepsEntry_ofOtherItems(key, payload) == key # payload[1]

KeepsEntry(key, payload) == Parts(key) # payload

\* { ...object, [key]: value }
With(object, key, value) ==
  [k \in DOMAIN object \cup {key} |-> IF k = key THEN value ELSE object[k]]

\* the MarketData / HistoricalData that SET_PRICES / SET_HISTORY store;
\* lastUpdated is the clock and no function reads it
MarketDataOf(payload) ==
  [itemId |-> payload.itemId, prices |-> payload.prices,
   loading |-> FALSE, error |-> Null]

HistoricalDataOf(payload) ==
  [itemId |-> payload.itemId, history |-> payload.history,
   loading |-> FALSE, error |-> Null]

marketReducer(state, action) ==
  CASE action.type = "ADD_ITEM" ->
         [state EXCEPT !.trackedItems = Append(@, action.payload)]
    [] action.type = "REMOVE_ITEM" ->
         [state EXCEPT
            !.trackedItems = WithoutItem(@, action.payload),
            !.marketData =
               [key \in {k \in DOMAIN @ : KeepsEntry(k, action.payload)}
                  |-> @[key]]]
    [] action.type = "SET_TRACKED_ITEMS" ->
         [state EXCEPT !.trackedItems = action.payload]
    [] action.type = "SET_PRICES" ->
         [state EXCEPT
            !.marketData =
               With(@, action.payload.itemId, MarketDataOf(action.payload))]
    [] action.type = "SET_HISTORY" ->
         [state EXCEPT
            !.historicalData =
               With(@, action.payload.itemId, HistoricalDataOf(action.payload))]
    [] action.type = "SET_GLOBAL_LOADING" ->
         [state EXCEPT !.loading = action.payload]
    [] action.type = "SET_ERROR" ->
         [state EXCEPT !.error = action.payload]
    [] action.type = "SET_LAST_REFRESH" ->
         [state EXCEPT !.lastRefresh = action.payload]
    [] OTHER -> state

\* the state after the dispatches of a synchronous block
RECURSIVE Dispatch(_, _)
Dispatch(state, actions) ==
  IF actions = <<>> THEN state
  ELSE Dispatch(marketReducer(state, Head(actions)), Tail(actions))

Action(type, payload) == [type |-> type, payload |-> payload]

\* new Date().toISOString()
ISOString(time) == [iso |-> time]

(***************************************************************************)
(* The synchronous blocks of addItem, removeItem, refreshPrices and        *)
(* refreshHistory, as the dispatches they make.                            *)
(***************************************************************************)
\* addItem, up to the await of fetchCurrentPrices
AddItemStart == <<Action("SET_GLOBAL_LOADING", TRUE)>>

\* addItem, from the fetched prices to the await of saveTrackedItems
AddItemStore(trackedItem, prices) ==
  <<Action("ADD_ITEM", trackedItem),
    Action("SET_PRICES", [itemId |-> trackedItem.itemId, prices |-> prices])>>

\* addItem, after saveTrackedItems
AddItemEnd == <<Action("SET_GLOBAL_LOADING", FALSE)>>

\* the catch block of addItem, before throw error
AddItemCatch_loadingKept(failure) ==
  <<Action("SET_ERROR", [message |-> failure.message])>>

AddItemCatch(failure) ==
  <<Action("SET_ERROR", [message |-> failure.message]),
    Action("SET_GLOBAL_LOADING", FALSE)>>

\* refreshPrices, up to the test of itemIds.length
RefreshPricesStart ==
  <<Action("SET_GLOBAL_LOADING", TRUE), Action("SET_ERROR", Null)>>

\* refreshPrices: if (itemIds.length === 0) { ...; return; }
RefreshPricesNothingToFetch == <<Action("SET_GLOBAL_LOADING", FALSE)>>

\* the item ids of the records, each once, in the order in which the
\* records first name them: the keys of groupedByItem
RECURSIVE GroupKeys(_, _)
GroupKeys(prices, seen) ==
  IF prices = <<>> THEN <<>>
  ELSE IF Head(prices).item_id \in seen THEN GroupKeys(Tail(prices), seen)
       ELSE <<Head(prices).item_id>>
              \o GroupKeys(Tail(prices), seen \cup {Head(prices).item_id})

\* groupedByItem[itemId]
GroupOf(prices, itemId) ==
  LET OfItem(record) == record.item_id = itemId
  IN  SelectSeq(prices, OfItem)

\* refreshPrices, from the fetched prices to its end
RefreshPricesStore(prices, time) ==
  LET keys == GroupKeys(prices, {})
  IN  [k \in DOMAIN keys |->
         Action("SET_PRICES",
                [itemId |-> keys[k], prices |-> GroupOf(prices, keys[k])])]
        \o <<Action("SET_LAST_REFRESH", ISOString(time)),
             Action("SET_GLOBAL_LOADING", FALSE)>>

\* the catch block of refreshPrices
RefreshPricesCatch(failure) ==
  <<Action("SET_ERROR", [message |-> failure.message]),
    Action("SET_GLOBAL_LOADING", FALSE)>>

\* refreshHistory, from the test of ids.length to the await
RefreshHistoryStart == <<Action("SET_GLOBAL_LOADING", TRUE)>>

\* the locations of the records, each once: the keys of groupedByLocation
RECURSIVE LocationKeys(_, _)
LocationKeys(history, seen) ==
  IF history = <<>> THEN <<>>
  ELSE IF Head(history).location \in seen
       THEN LocationKeys(Tail(history), seen)
       ELSE <<Head(history).location>>
              \o LocationKeys(Tail(history),
                              seen \cup {Head(history).location})

LocationGroupOf(history, location) ==
  LET AtLocation(item) == item.location = location
  IN  SelectSeq(history, AtLocation)

\* refreshHistory, from the fetched history to its end
RefreshHistoryStore(history) ==
  LET keys == LocationKeys(history, {})
  IN  [k \in DOMAIN keys |->
         Action("SET_HISTORY",
                [itemId |-> keys[k],
                 history |-> LocationGroupOf(history, keys[k])])]
        \o <<Action("SET_GLOBAL_LOADING", FALSE)>>

\* the catch block of refreshHistory
RefreshHistoryCatch_loadingKept == <<>>

RefreshHistoryCatch == <<Action("SET_GLOBAL_LOADING", FALSE)>>

\* removeItem, up to the await of saveTrackedItems
RemoveItemStart(id) == <<Action("REMOVE_ITEM", id)>>

\* await AsyncStorage.setItem("trackedItems", JSON.stringify(items)): the
\* stored text parses back to items
SetItem(store, key, items) == With(store, key, items)

(***************************************************************************)
(* The steps of the context.                                               *)
(***************************************************************************)
\* the state of the reducer
State ==
  [trackedItems |-> trackedItems, marketData |-> marketData,
   historicalData |-> historicalData, loading |-> loading, error |-> error,
   lastRefresh |-> lastRefresh]

\* the reducer state becomes next
Becomes(next) ==
  /\ trackedItems' = next.trackedItems
  /\ marketData' = next.marketData
  /\ historicalData' = next.historicalData
  /\ loading' = next.loading
  /\ error' = next.error
  /\ lastRefresh' = next.lastRefresh

\* a call that waits for a promise: the function, the time it started its
\* request, the ids it asked for, state.trackedItems of the render that made
\* the function (closure), the items that handleAddItems has yet to add
\* (queue), who awaits it (caller), and where it waits (phase)
Call(function, time, itemIds, closure, queue, caller, phase, prices) ==
  [function |-> function, time |-> time, itemIds |-> itemIds,
   closure |-> closure, queue |-> queue, caller |-> caller, phase |-> phase,
   prices |-> prices]

\* the call of addItem returned in the last step: it is fulfilled or
\* rejected
Returned(call, outcome) ==
  [function |-> call.function, outcome |-> outcome,
   itemId |-> call.itemIds[1], time |-> call.time, prices |-> call.prices,
   queue |-> call.queue]

Calculator == UNCHANGED vars

\* the calls that wait for the answer of a request or of the storage
Pending == {call \in inFlight : call.phase # "next"}

\* AddItemScreen runs no handleAddItems. While it runs one, the screen is on
\* top of the others (router.back() follows the loop) and it offers no
\* refresh and no removal.
AddItemScreenIdle == \A call \in inFlight : call.function # "addItem"

\* handleAddItems of AddItemScreen: the first addItem of the loop starts.
\* The screen is opened from HomeScreen and offers the items that are not
\* tracked; addItem is the function of the render in which the button was
\* pressed.
HandleAddItems ==
  /\ mounted /\ AddItemScreenIdle
  /\ \E selected \in SelectedItems :
       /\ \A k \in DOMAIN selected :
            ~ Includes(ItemIdsOf(trackedItems), selected[k])
       /\ now + Len(selected) <= MaxCalls
       /\ Becomes(Dispatch(State, AddItemStart))
       /\ now' = now + 1
       /\ inFlight' = inFlight \cup
            {Call("addItem", now + 1, <<Head(selected)>>, trackedItems,
                  Tail(selected), "handleAddItems", "fetch", <<>>)}
  /\ returned' = NothingReturned
  /\ UNCHANGED <<storage, refreshing, mounted>>
  /\ Calculator

\* addItem: fetchCurrentPrices is fulfilled; the item and its prices are
\* dispatched and saveTrackedItems is called with the list of the closure
AddItemFetched ==
  /\ \E call \in inFlight, answer \in ServerAnswers :
       /\ call.function = "addItem" /\ call.phase = "fetch"
       /\ LET data        == ResponseData(call.itemIds, answer, call.time)
              prices      == fetchCurrentPrices(data)
              trackedItem == TrackedItem(call.itemIds[1], now)
              updatedItems == Append(call.closure, trackedItem)
          IN  /\ Becomes(Dispatch(State, AddItemStore(trackedItem, prices)))
              /\ storage' = SetItem(storage, "trackedItems", updatedItems)
              /\ inFlight' = (inFlight \ {call}) \cup
                   {[call EXCEPT !.phase = "save", !.prices = prices]}
  /\ returned' = NothingReturned
  /\ UNCHANGED <<now, refreshing, mounted>>
  /\ Calculator

\* addItem: saveTrackedItems is done and addItem returns; the loop of
\* handleAddItems goes on with the next item, if any
AddItemSaved ==
  /\ \E call \in inFlight :
       /\ call.function = "addItem" /\ call.phase = "save"
       /\ Becomes(Dispatch(State, AddItemEnd))
       /\ returned' = Returned(call, "fulfilled")
       /\ inFlight' = (inFlight \ {call}) \cup
            (IF call.queue = <<>> THEN {}
             ELSE {[call EXCEPT !.phase = "next"]})
  /\ UNCHANGED <<storage, now, refreshing, mounted>>
  /\ Calculator

\* the loop of handleAddItems calls addItem for its next item
AddItemNext ==
  /\ \E call \in inFlight :
       /\ call.function = "addItem" /\ call.phase = "next"
       /\ Becomes(Dispatch(State, AddItemStart))
       /\ now' = now + 1
       /\ inFlight' = (inFlight \ {call}) \cup
            {Call("addItem", now + 1, <<Head(call.queue)>>, call.closure,
                  Tail(call.queue), "handleAddItems", "fetch", <<>>)}
  /\ returned' = NothingReturned
  /\ UNCHANGED <<storage, refreshing, mounted>>
  /\ Calculator

\* addItem: fetchCurrentPrices is rejected; addItem throws and the loop of
\* handleAddItems ends
AddItemFailed ==
  /\ \E call \in inFlight :
       /\ call.function = "addItem" /\ call.phase = "fetch"
       /\ Becomes(Dispatch(State, AddItemCatch(ApiError)))
       /\ returned' = Returned(call, "rejected")
       /\ inFlight' = inFlight \ {call}
  /\ UNCHANGED <<storage, now, refreshing, mounted>>
  /\ Calculator

\* removeItem(id) for a tracked item
RemoveItem ==
  /\ AddItemScreenIdle
  /\ \E k \in DOMAIN trackedItems :
       LET id           == trackedItems[k].id
           updatedItems == WithoutItem(trackedItems, id)
       IN  /\ Becomes(Dispatch(State, RemoveItemStart(id)))
           /\ storage' = SetItem(storage, "trackedItems", updatedItems)
  /\ returned' = NothingReturned
  /\ UNCHANGED <<inFlight, now, refreshing, mounted>>
  /\ Calculator

\* refreshPrices(), called by caller; awaited is the value of refreshing
\* while the call is awaited
RefreshPrices(caller, awaited) ==
  LET itemIds == ItemIdsOf(trackedItems)
      started == Dispatch(State, RefreshPricesStart)
  IN  IF itemIds = <<>>
      THEN /\ Becomes(Dispatch(started, RefreshPricesNothingToFetch))
           /\ UNCHANGED <<inFlight, now, refreshing>>
      ELSE /\ now < MaxCalls
           /\ Becomes(started)
           /\ now' = now + 1
           /\ refreshing' = awaited
           /\ inFlight' = inFlight \cup
                {Call("refreshPrices", now + 1, itemIds, trackedItems, <<>>,
                      caller, "fetch", <<>>)}

\* onRefresh of HomeScreen: the list of the mounted screen is pulled down
\* while it is not refreshing
OnRefresh ==
  /\ mounted /\ ~refreshing /\ AddItemScreenIdle
  /\ RefreshPrices("onRefresh", TRUE)
  /\ returned' = NothingReturned
  /\ UNCHANGED <<storage, mounted>>
  /\ Calculator

\* the mount effect of HomeScreen
HomeScreenMounted ==
  /\ ~mounted
  /\ mounted' = TRUE
  /\ \/ /\ Len(trackedItems) > 0 /\ DOMAIN marketData = {}
        /\ RefreshPrices("useEffect", refreshing)
     \/ /\ ~(Len(trackedItems) > 0 /\ DOMAIN marketData = {})
        /\ UNCHANGED <<trackedItems, marketData, historicalData, loading,
                       error, lastRefresh, inFlight, now, refreshing>>
  /\ returned' = NothingReturned
  /\ UNCHANGED storage
  /\ Calculator

\* setRefreshing(false) of onRefresh, after the await
AfterAwait(call) ==
  refreshing' = IF call.caller = "onRefresh" THEN FALSE ELSE refreshing

\* refreshPrices: fetchCurrentPrices is fulfilled
RefreshPricesFetched ==
  /\ \E call \in inFlight, answer \in ServerAnswers :
       /\ call.function = "refreshPrices"
       /\ LET data   == ResponseData(call.itemIds, answer, call.time)
              prices == fetchCurrentPrices(data)
          IN  Becomes(Dispatch(State, RefreshPricesStore(prices, now)))
       /\ inFlight' = inFlight \ {call}
       /\ AfterAwait(call)
  /\ returned' = NothingReturned
  /\ UNCHANGED <<storage, now, mounted>>
  /\ Calculator

\* refreshPrices: fetchCurrentPrices is rejected
RefreshPricesFailed ==
  /\ \E call \in inFlight :
       /\ call.function = "refreshPrices"
       /\ Becomes(Dispatch(State, RefreshPricesCatch(ApiError)))
       /\ inFlight' = inFlight \ {call}
       /\ AfterAwait(call)
  /\ returned' = NothingReturned
  /\ UNCHANGED <<storage, now, mounted>>
  /\ Calculator

\* refreshHistory() without arguments
RefreshHistory ==
  /\ AddItemScreenIdle
  /\ LET ids == ItemIdsOf(trackedItems)
     IN  IF ids = <<>>
         THEN UNCHANGED <<trackedItems, marketData, historicalData, loading,
                          error, lastRefresh, inFlight, now>>
         ELSE /\ now < MaxCalls
              /\ Becomes(Dispatch(State, RefreshHistoryStart))
              /\ now' = now + 1
              /\ inFlight' = inFlight \cup
                   {Call("refreshHistory", now + 1, ids, trackedItems, <<>>,
                         "none", "fetch", <<>>)}
  /\ returned' = NothingReturned
  /\ UNCHANGED <<storage, refreshing, mounted>>
  /\ Calculator

\* refreshHistory: fetchHistoricalPrices is fulfilled
RefreshHistoryFetched ==
  /\ \E call \in inFlight, history \in HistoryAnswers :
       /\ call.function = "refreshHistory"
       /\ Becomes(Dispatch(State, RefreshHistoryStore(history)))
       /\ inFlight' = inFlight \ {call}
  /\ returned' = NothingReturned
  /\ UNCHANGED <<storage, now, refreshing, mounted>>
  /\ Calculator

\* refreshHistory: fetchHistoricalPrices is rejected
RefreshHistoryFailed ==
  /\ \E call \in inFlight :
       /\ call.function = "refreshHistory"
       /\ Becomes(Dispatch(State, RefreshHistoryCatch))
       /\ inFlight' = inFlight \ {call}
  /\ returned' = NothingReturned
  /\ UNCHANGED <<storage, now, refreshing, mounted>>
  /\ Calculator

\* the provider is mounted and loadTrackedItems has run
MarketInit == NoCall /\ \E stored \in StoredLists : InitialContext(stored)

\* a promise is settled and the call that awaits it goes on
Settle ==
  \/ AddItemFetched
  \/ AddItemFailed
  \/ AddItemSaved
  \/ AddItemNext
  \/ RefreshPricesFetched
  \/ RefreshPricesFailed
  \/ RefreshHistoryFetched
  \/ RefreshHistoryFailed

MarketNext ==
  \/ HandleAddItems
  \/ RemoveItem
  \/ OnRefresh
  \/ HomeScreenMounted
  \/ RefreshHistory
  \/ Settle

MarketSpec == MarketInit /\ [][MarketNext]_allVars

\* every request is answered or fails, every write to the storage ends, and
\* the event loop runs the call that awaits it
FairMarketSpec == MarketSpec /\ WF_allVars(Settle)

(***************************************************************************)
(* Helpers of the properties.                                              *)
(***************************************************************************)
\* n is the smallest integer >= x * rate / 1000
IsCeilingOf(n, x, rate) ==
  /\ PER_MILLE * n >= rate * x
  /\ PER_MILLE * (n - 1) < rate * x

\* the entries of an array that have a buy price > 0, in order
WithOffer(prices) ==
  LET HasOffer(e) == e.buyPrice > 0
  IN  SelectSeq(prices, HasOffer)

\* netProfit of the route computed for one entry on its own
ProfitOf(entry) ==
  calculateTradeProfit(entry.buyPrice, sellPrice, isPremium).netProfit

\* the route computed for one entry on its own, with its city
OwnRoute(entry) ==
  [calculateTradeProfit(entry.buyPrice, sellPrice, isPremium)
     EXCEPT !.buyCity = entry.city]

\* number of positions of the array a that hold x
CountIn(a, x) == Cardinality({i \in DOMAIN a : a[i] = x})

(***************************************************************************)
(* Properties of the fee and tax functions.                                *)
(***************************************************************************)
\* C1: for buyPrice > 0 and sellPrice >= 0 the route of calculateTradeProfit
\* has setupFee = ceil(2.5% of buyPrice), transactionTax = ceil(8% of
\* sellPrice) (4% with premium), netProfit = (sellPrice - transactionTax) -
\* (buyPrice + setupFee) and profitMargin * (buyPrice + setupFee) =
\* netProfit * 100; a route is returned whatever the sign of netProfit.
C1_TradeProfitFormula ==
  (op = "calculateTradeProfit" /\ buyPrice > 0 /\ sellPrice >= 0) =>
    /\ route # Null
    /\ route.buyPrice = buyPrice /\ route.sellPrice = sellPrice
    /\ IsCeilingOf(route.setupFee, buyPrice, 25)
    /\ IsCeilingOf(route.transactionTax, sellPrice,
                   IF isPremium THEN 40 ELSE 80)
    /\ route.netProfit =
         (sellPrice - route.transactionTax) - (buyPrice + route.setupFee)
    /\ route.profitMargin.den # 0
    /\ route.profitMargin.num * (buyPrice + route.setupFee) =
         route.netProfit * 100 * route.profitMargin.den

\* a route with a loss is returned
C1_Witness ==
  /\ op = "calculateTradeProfit"
  /\ buyPrice = 2000 /\ sellPrice = 1000
  /\ route.netProfit < 0
  /\ route.profitMargin.num < 0

\* C2: for a price p >= 0, calculateSetupFee(p) is the smallest integer
\* >= 0.025 * p: it is >= 0, >= 0.025 * p, < 0.025 * p + 1, and 0 exactly
\* when p = 0.
C2_SetupFeeRoundsUp ==
  (op = "calculateSetupFee" /\ price >= 0) =>
    /\ fee >= 0
    /\ 1000 * fee >= 25 * price
    /\ 1000 * fee < 25 * price + 1000
    /\ (fee = 0 <=> price = 0)

\* 2.5 is rounded up to 3
C2_Witness == op = "calculateSetupFee" /\ price = 100 /\ fee = 3

\* C3: for a price p >= 0, calculateTransactionTax(p, premium) is
\* ceil(p * 0.04) with premium and ceil(p * 0.08) without; the premium tax
\* is <= the regular tax, and they are equal only where one integer is the
\* ceiling of both p * 0.04 and p * 0.08.
C3_TransactionTaxRates ==
  (op = "calculateTransactionTax" /\ price >= 0) =>
    LET premiumTax == IF isPremium THEN tax
                      ELSE calculateTransactionTax(price, TRUE)
        regularTax == IF isPremium THEN calculateTransactionTax(price, FALSE)
                      ELSE tax
    IN  /\ IsCeilingOf(premiumTax, price, 40)
        /\ IsCeilingOf(regularTax, price, 80)
        /\ premiumTax <= regularTax
        /\ (premiumTax = regularTax) =>
              /\ IsCeilingOf(premiumTax, price, 80)
              /\ IsCeilingOf(regularTax, price, 40)

\* the premium tax is strictly lower
C3_Witness ==
  /\ op = "calculateTransactionTax" /\ isPremium /\ price = 1000
  /\ tax = 40
  /\ calculateTransactionTax(price, FALSE) = 80

\* C4: calculateTradeProfit(1000, 2000, false) has setupFee 25,
\* transactionTax 160 and netProfit 815; with premium it has transactionTax
\* 80 and netProfit 895 and is flagged isPremium.
C4_TradeProfitExample ==
  (op = "calculateTradeProfit" /\ buyPrice = 1000 /\ sellPrice = 2000) =>
    /\ route.setupFee = 25
    /\ ~isPremium => /\ route.transactionTax = 160
                     /\ route.netProfit = 815
                     /\ ~route.isPremium
    /\ isPremium => /\ route.transactionTax = 80
                    /\ route.netProfit = 895
                    /\ route.isPremium

\* the premium call of the example
C4_Witness ==
  /\ op = "calculateTradeProfit" /\ buyPrice = 1000 /\ sellPrice = 2000
  /\ isPremium
  /\ route.netProfit = 895

(***************************************************************************)
(* Properties of findBestTradingRoute.                                     *)
(***************************************************************************)
\* C5: a route returned by findBestTradingRoute belongs to an input entry
\* with buyPrice > 0 (it has that entry's city and buy price), its netProfit
\* is > 0, and its netProfit is >= the netProfit of the route computed for
\* every input entry with buyPrice > 0.
C5_BestRouteMaximizesProfit ==
  (op = "findBestTradingRoute" /\ bestRoute # Null) =>
    /\ \E i \in DOMAIN cityPrices :
         /\ cityPrices[i].buyPrice > 0
         /\ bestRoute.buyCity = cityPrices[i].city
         /\ bestRoute.buyPrice = cityPrices[i].buyPrice
         /\ bestRoute.netProfit = ProfitOf(cityPrices[i])
    /\ bestRoute.netProfit > 0
    /\ \A j \in DOMAIN cityPrices :
         cityPrices[j].buyPrice > 0 =>
           bestRoute.netProfit >= ProfitOf(cityPrices[j])

\* the returned route is not that of the first entry: an earlier entry with
\* an offer yields a strictly lower profit
C5_Witness ==
  /\ op = "findBestTradingRoute" /\ bestRoute # Null
  /\ Len(cityPrices) >= 2
  /\ cityPrices[1].buyPrice > 0
  /\ ProfitOf(cityPrices[1]) > 0
  /\ ProfitOf(cityPrices[1]) < bestRoute.netProfit

\* C6: findBestTradingRoute returns null exactly when no input entry with
\* buyPrice > 0 yields a route with netProfit > 0 (empty input, no buy price
\* > 0, every buy price >= the sell price); it always returns.
C6_NullIffNoProfitableRoute ==
  (op = "findBestTradingRoute") =>
    /\ (bestRoute = Null) <=>
         ~ \E i \in DOMAIN cityPrices :
              cityPrices[i].buyPrice > 0 /\ ProfitOf(cityPrices[i]) > 0
    /\ cityPrices = <<>> => bestRoute = Null
    /\ (\A i \in DOMAIN cityPrices : cityPrices[i].buyPrice <= 0)
         => bestRoute = Null
    /\ (\A i \in DOMAIN cityPrices : cityPrices[i].buyPrice >= sellPrice)
         => bestRoute = Null

\* null although an entry has an offer: its route makes no profit
C6_Witness ==
  /\ op = "findBestTradingRoute" /\ bestRoute = Null
  /\ \E i \in DOMAIN cityPrices :
       cityPrices[i].buyPrice > 0 /\ ProfitOf(cityPrices[i]) = 0

\* C7: entries with buyPrice <= 0 are treated as absent by
\* findBestTradingRoute and getAllProfitableRoutes: the result is the result
\* on the input without these entries, and no returned route has a buy
\* price <= 0.
C7_NoOfferEntriesIgnored ==
  /\ (op = "findBestTradingRoute") =>
       /\ bestRoute =
            findBestTradingRoute(WithOffer(cityPrices), sellPrice, isPremium)
       /\ bestRoute # Null => bestRoute.buyPrice > 0
  /\ (op = "getAllProfitableRoutes") =>
       /\ routes =
            getAllProfitableRoutes(WithOffer(cityPrices), sellPrice, isPremium)
       /\ \A k \in DOMAIN routes : routes[k].buyPrice > 0

\* a route is returned for an input whose first entry has a buy price of 0
C7_Witness ==
  /\ op \in {"findBestTradingRoute", "getAllProfitableRoutes"}
  /\ Len(cityPrices) >= 2
  /\ cityPrices[1].buyPrice = 0
  /\ (bestRoute # Null \/ routes # <<>>)

(***************************************************************************)
(* Properties of getAllProfitableRoutes.                                   *)
(***************************************************************************)
\* C8 as stated: each route's netProfit is strictly greater than the
\* netProfit of the route after it.
C8_StrictlyDescending ==
  (op = "getAllProfitableRoutes") =>
    \A k \in 1 .. (Len(routes) - 1) :
      routes[k].netProfit > routes[k + 1].netProfit

\* C8, amended: the routes returned by getAllProfitableRoutes are in
\* descending order of netProfit: each route's netProfit is greater than or
\* equal to that of the route after it (equal for entries of equal buy
\* price).
C8_Descending ==
  (op = "getAllProfitableRoutes") =>
    \A k \in 1 .. (Len(routes) - 1) :
      routes[k].netProfit >= routes[k + 1].netProfit

\* the sort reordered the input: the first route is that of the last entry
C8_Witness ==
  /\ op = "getAllProfitableRoutes"
  /\ Len(cityPrices) >= 2 /\ Len(routes) = Len(cityPrices)
  /\ routes[1] = OwnRoute(cityPrices[Len(cityPrices)])
  /\ routes[1].netProfit > routes[2].netProfit

\* C9 as stated: the length of the result is the number of input entries
\* whose individually computed route has netProfit > 0.
C9_OnePerProfitableEntry ==
  (op = "getAllProfitableRoutes") =>
    Len(routes) =
      Cardinality({i \in DOMAIN cityPrices : ProfitOf(cityPrices[i]) > 0})

\* C9, amended: getAllProfitableRoutes returns exactly one route per input
\* entry with buyPrice > 0 whose individually computed route has netProfit
\* > 0, and no other route: its length is the number of such entries, and it
\* is an empty sequence, not null, when there is none.
C9_OnePerProfitableOffer ==
  (op = "getAllProfitableRoutes") =>
    LET profitable == {i \in DOMAIN cityPrices :
                          /\ cityPrices[i].buyPrice > 0
                          /\ ProfitOf(cityPrices[i]) > 0}
    IN  /\ Len(routes) = Cardinality(profitable)
        /\ \A i \in profitable :
             CountIn(routes, OwnRoute(cityPrices[i])) =
               Cardinality({j \in profitable :
                              OwnRoute(cityPrices[j]) = OwnRoute(cityPrices[i])})
        /\ \A k \in DOMAIN routes :
             \E i \in profitable : routes[k] = OwnRoute(cityPrices[i])
        /\ DOMAIN routes = 1 .. Len(routes)
        /\ profitable = {} => routes = <<>>

\* some entries are returned and an entry with an offer is left out
C9_Witness ==
  /\ op = "getAllProfitableRoutes"
  /\ routes # <<>>
  /\ Len(routes) < Len(WithOffer(cityPrices))

\* C10: two profitable entries of equal netProfit are returned in their input
\* order: for every netProfit, the returned routes with that netProfit are
\* the routes of the profitable entries with that netProfit, in input order.
C10_TiesKeepInputOrder ==
  (op = "getAllProfitableRoutes") =>
    LET offers == WithOffer(cityPrices)
        computed == [i \in DOMAIN offers |-> OwnRoute(offers[i])]
    IN  \A k \in DOMAIN routes :
          LET SameProfit(r) == r.netProfit = routes[k].netProfit
          IN  SelectSeq(routes, SameProfit) = SelectSeq(computed, SameProfit)

\* two routes of equal netProfit and different cities are returned
C10_Witness ==
  /\ op = "getAllProfitableRoutes"
  /\ \E k \in 1 .. (Len(routes) - 1) :
       /\ routes[k].netProfit = routes[k + 1].netProfit
       /\ routes[k].buyCity # routes[k + 1].buyCity

(***************************************************************************)
(* Properties of analyzeProfitability.                                     *)
(***************************************************************************)
\* the report that analyzeProfitability returns for the cityPrices of the
\* state with another sell price and premium flag
ReportFor(s, prem) ==
  analyzeProfitability("T4_BAG", "T4.0 Bag", 1, cityPrices, s, prem)

\* C11: analyzeProfitability reports as bestBuyCity / bestBuyPrice the entry
\* with the minimum buyPrice among the entries with buyPrice > 0, the first
\* of them in input order when several share the minimum, whatever the Black
\* Market sell price and the premium flag.
C11_CheapestFirstEntry ==
  (op = "analyzeProfitability" /\ report # TypeError) =>
    /\ \E i \in DOMAIN cityPrices :
         /\ cityPrices[i].buyPrice > 0
         /\ \A j \in DOMAIN cityPrices :
              cityPrices[j].buyPrice > 0 =>
                /\ cityPrices[i].buyPrice <= cityPrices[j].buyPrice
                /\ cityPrices[j].buyPrice = cityPrices[i].buyPrice => i <= j
         /\ report.bestBuyCity = cityPrices[i].city
         /\ report.bestBuyPrice = cityPrices[i].buyPrice
    /\ \A s \in SellPrices, prem \in BOOLEAN :
         LET other == ReportFor(s, prem)
         IN  /\ other.bestBuyCity = report.bestBuyCity
             /\ other.bestBuyPrice = report.bestBuyPrice

\* two cities share the minimum and the first of them, which is not the
\* first entry, is reported
C11_Witness ==
  /\ op = "analyzeProfitability" /\ report # TypeError
  /\ Len(cityPrices) = 3
  /\ cityPrices[1].buyPrice > cityPrices[2].buyPrice
  /\ cityPrices[2].buyPrice > 0
  /\ cityPrices[3].buyPrice = cityPrices[2].buyPrice
  /\ cityPrices[3].city # cityPrices[2].city
  /\ report.bestBuyCity = cityPrices[2].city

\* C12: analyzeProfitability fails (it throws instead of returning a report)
\* when cityPrices has no entry with buyPrice > 0, i.e. when it is empty or
\* all its prices are <= 0; on such an input findBestTradingRoute returns
\* null and getAllProfitableRoutes returns an empty sequence.
C12_FailsWithoutBuySource ==
  LET noSource == \A i \in DOMAIN cityPrices : cityPrices[i].buyPrice <= 0
  IN  /\ (op = "analyzeProfitability") => (report = TypeError <=> noSource)
      /\ (op = "analyzeProfitability" /\ noSource) =>
           /\ findBestTradingRoute(cityPrices, sellPrice, isPremium) = Null
           /\ getAllProfitableRoutes(cityPrices, sellPrice, isPremium) = <<>>
      /\ (op = "findBestTradingRoute" /\ noSource) => bestRoute = Null
      /\ (op = "getAllProfitableRoutes" /\ noSource) => routes = <<>>

\* the call fails on a non-empty input whose prices are all <= 0
C12_Witness ==
  /\ op = "analyzeProfitability"
  /\ report = TypeError
  /\ Len(cityPrices) >= 2
  /\ sellPrice > 0

\* C13: for an input with a buyPrice > 0, the setupFee, transactionTax and
\* netProfit of the report are those of calculateTradeProfit(bestBuyPrice,
\* blackMarketSellPrice, premium), and isProfitable is true exactly when
\* that netProfit is > 0.
C13_ReportMatchesTradeProfit ==
  (op = "analyzeProfitability"
     /\ \E i \in DOMAIN cityPrices : cityPrices[i].buyPrice > 0) =>
    /\ report # TypeError
    /\ LET r == calculateTradeProfit(report.bestBuyPrice, sellPrice, isPremium)
       IN  /\ report.setupFee = r.setupFee
           /\ report.transactionTax = r.transactionTax
           /\ report.netProfit = r.netProfit
           /\ report.isProfitable <=> (r.netProfit > 0)
           /\ report.blackMarketSellPrice = sellPrice
           /\ report.isPremium = isPremium

\* a report that breaks even is not profitable
C13_Witness ==
  /\ op = "analyzeProfitability" /\ report # TypeError
  /\ report.netProfit = 0
  /\ ~report.isProfitable

(***************************************************************************)
(* Properties of the price-record functions.                               *)
(***************************************************************************)
\* the cities of the configured valid-city list
ValidCityNames ==
  {"Bridgewatch", "Brecilien", "Caerleon", "Fort Sterling", "Lymhurst",
   "Martlock"}

C15_BestBuyInValidCity ==
  (op = "findBestPrices" /\ bestPrices.bestBuy.price # Infinity) =>
    /\ bestPrices.bestBuy.city # "Black Market"
    /\ bestPrices.bestBuy.city \in ValidCityNames

\* C16: getBlackMarketSellPrice looks at the Black Market quotes only and
\* returns the price and quality of the one with the maximum sell_price_min,
\* the first in input order on ties; it returns null when there is no Black
\* Market quote or none with sell_price_min > 0, so that a returned price is
\* > 0 and the quotes of other cities do not influence the result.
C16_BlackMarketSellPrice ==
  (op = "getBlackMarketSellPrice") =>
    LET atMarket == {i \in DOMAIN quotes : quotes[i].city = "Black Market"}
        sellers  == {i \in atMarket : quotes[i].sell_price_min > 0}
        OnlyMarket(q) == q.city = "Black Market"
    IN  /\ (blackMarket = Null) <=> (sellers = {})
        /\ sellers # {} =>
             \E i \in sellers :
               /\ \A j \in atMarket :
                    /\ quotes[i].sell_price_min >= quotes[j].sell_price_min
                    /\ quotes[j].sell_price_min = quotes[i].sell_price_min
                         => i <= j
               /\ blackMarket = [price |-> quotes[i].sell_price_min,
                                 quality |-> quotes[i].quality]
        /\ blackMarket # Null => blackMarket.price > 0
        /\ blackMarket = getBlackMarketSellPrice(SelectSeq(quotes, OnlyMarket))

\* the Black Market quote is returned although the quote of another city,
\* first in the list, has a higher sell_price_min
C16_Witness ==
  /\ op = "getBlackMarketSellPrice" /\ Len(quotes) = 2
  /\ quotes[1].city # "Black Market"
  /\ quotes[2].city = "Black Market"
  /\ quotes[1].sell_price_min > quotes[2].sell_price_min
  /\ blackMarket # Null
  /\ blackMarket.price = quotes[2].sell_price_min

\* C17: getCityPricesSorted returns one entry {city, buyPrice =
\* buy_price_max, sellPrice = sell_price_min} for each quote whose city is in
\* the valid-city list and none for any other quote (Black Market quotes are
\* left out whatever their buy_price_max), in ascending order of buyPrice.
C17_CityPricesSorted ==
  (op = "getCityPricesSorted") =>
    LET valid == {i \in DOMAIN quotes : quotes[i].city \in ValidCityNames}
        EntryOf(i) == [city |-> quotes[i].city,
                       buyPrice |-> quotes[i].buy_price_max,
                       sellPrice |-> quotes[i].sell_price_min]
    IN  /\ Len(sortedPrices) = Cardinality(valid)
        /\ \A i \in valid :
             CountIn(sortedPrices, EntryOf(i)) =
               Cardinality({j \in valid : EntryOf(j) = EntryOf(i)})
        /\ \A k \in DOMAIN sortedPrices :
             /\ sortedPrices[k].city \in ValidCityNames
             /\ sortedPrices[k].city # "Black Market"
        /\ \A k \in 1 .. (Len(sortedPrices) - 1) :
             sortedPrices[k].buyPrice <= sortedPrices[k + 1].buyPrice

\* the two quotes of a valid city are returned in the other order
C17_Witness ==
  /\ op = "getCityPricesSorted" /\ Len(quotes) = 2
  /\ Len(sortedPrices) = 2
  /\ quotes[1].buy_price_max > quotes[2].buy_price_max
  /\ sortedPrices[1].buyPrice = quotes[2].buy_price_max
  /\ sortedPrices[2].buyPrice = quotes[1].buy_price_max

\* the sum of buy_price_max over all the quotes of the state
RECURSIVE TotalBuyPriceMax(_)
TotalBuyPriceMax(q) ==
  IF q = <<>> THEN 0 ELSE Head(q).buy_price_max + TotalBuyPriceMax(Tail(q))

\* C18: getAveragePrice returns 0 for an empty list and otherwise the mean
\* of buy_price_max over all the quotes rounded to the nearest integer; the
\* result is never NaN.
C18_AveragePrice ==
  (op = "getAveragePrice") =>
    /\ ~average.nan
    /\ quotes = <<>> => average.n = 0
    /\ quotes # <<>> =>
         LET n    == Len(quotes)
             diff == 2 * (average.n * n - TotalBuyPriceMax(quotes))
         IN  -n < diff /\ diff <= n

\* the mean 2761.5 is rounded to 2762
C18_Witness ==
  /\ op = "getAveragePrice" /\ Len(quotes) = 2
  /\ quotes[1].buy_price_max = 2528 /\ quotes[2].buy_price_max = 2995
  /\ average.n = 2762

\* C19: a price of 0 is no data, not a free item: bestBuy.price of
\* findBestPrices is > 0 or +infinity, and every route of
\* findBestTradingRoute and getAllProfitableRoutes and every report of
\* analyzeProfitability has a buy price > 0, hence a divisor buyPrice +
\* setupFee > 0.
C19_NoFreeItem ==
  /\ (op = "findBestPrices") =>
       (bestPrices.bestBuy.price.inf \/ bestPrices.bestBuy.price.n > 0)
  /\ (op = "findBestTradingRoute" /\ bestRoute # Null) =>
       /\ bestRoute.buyPrice > 0
       /\ bestRoute.buyPrice + bestRoute.setupFee > 0
       /\ bestRoute.profitMargin.den > 0
  /\ (op = "getAllProfitableRoutes") =>
       \A k \in DOMAIN routes :
         /\ routes[k].buyPrice > 0
         /\ routes[k].buyPrice + routes[k].setupFee > 0
         /\ routes[k].profitMargin.den > 0
  /\ (op = "analyzeProfitability" /\ report # TypeError) =>
       /\ report.bestBuyPrice > 0
       /\ report.bestBuyPrice + report.setupFee > 0
       /\ report.profitPercentage.den > 0

\* a report is returned for an input whose first entry has the price 0
C19_Witness ==
  /\ op = "analyzeProfitability" /\ report # TypeError
  /\ Len(cityPrices) >= 2
  /\ cityPrices[1].buyPrice = 0
  /\ report.bestBuyPrice > 0

C21_ValidCitiesStatic ==
  LET configured == <<"Bridgewatch", "Brecilien", "Caerleon", "Fort Sterling",
                      "Lymhurst", "Martlock">>
  IN  /\ getValidCities = configured
      /\ \A k \in DOMAIN getValidCities : getValidCities[k] # "Black Market"
      /\ (op = "getValidCities") =>
           /\ validCities = configured
           /\ \A k \in DOMAIN validCities : validCities[k] # "Black Market"

\* getValidCities has returned the six cities
C21_Witness ==
  /\ op = "getValidCities"
  /\ Len(validCities) = Len(VALID_CITIES)
  /\ validCities[1] = "Bridgewatch"

\* C25: for cityPrices with at least one buyPrice > 0, findBestTradingRoute
\* returns a route exactly when analyzeProfitability reports isProfitable,
\* and then both name the same buy city, the same buy price and the same
\* netProfit.
C25_SameBuySource ==
  (op = "findBestTradingRoute"
     /\ \E i \in DOMAIN cityPrices : cityPrices[i].buyPrice > 0) =>
    LET analysis == ReportFor(sellPrice, isPremium)
    IN  /\ analysis # TypeError
        /\ (bestRoute # Null) <=> analysis.isProfitable
        /\ bestRoute # Null =>
             /\ bestRoute.buyCity = analysis.bestBuyCity
             /\ bestRoute.buyPrice = analysis.bestBuyPrice
             /\ bestRoute.netProfit = analysis.netProfit

\* two cities share the lowest price, a dearer city comes first, and both
\* functions name the first of the two
C25_Witness ==
  /\ op = "findBestTradingRoute" /\ bestRoute # Null
  /\ Len(cityPrices) = 3
  /\ cityPrices[1].buyPrice > cityPrices[2].buyPrice
  /\ cityPrices[2].buyPrice > 0
  /\ cityPrices[3].buyPrice = cityPrices[2].buyPrice
  /\ cityPrices[3].city # cityPrices[2].city
  /\ ProfitOf(cityPrices[1]) > 0
  /\ bestRoute.buyCity = cityPrices[2].city
  /\ ReportFor(sellPrice, isPremium).bestBuyCity = cityPrices[2].city

\* C26: getAllProfitableRoutes is empty exactly when findBestTradingRoute
\* returns null, and otherwise its first element has the buyCity, buyPrice
\* and netProfit of the route that findBestTradingRoute returns.
C26_FirstRouteIsBestRoute ==
  (op = "getAllProfitableRoutes") =>
    LET best == findBestTradingRoute(cityPrices, sellPrice, isPremium)
    IN  /\ (routes = <<>>) <=> (best = Null)
        /\ routes # <<>> =>
             /\ routes[1].buyCity = best.buyCity
             /\ routes[1].buyPrice = best.buyPrice
             /\ routes[1].netProfit = best.netProfit

\* the best route is that of the last entry and two routes were returned
C26_Witness ==
  /\ op = "getAllProfitableRoutes"
  /\ Len(cityPrices) >= 2 /\ Len(routes) >= 2
  /\ routes[1].netProfit > routes[2].netProfit
  /\ routes[1].buyCity = cityPrices[Len(cityPrices)].city
  /\ cityPrices[1].city # cityPrices[Len(cityPrices)].city
  /\ findBestTradingRoute(cityPrices, sellPrice, isPremium).buyCity =
       routes[1].buyCity

(***************************************************************************)
(* Properties of the market context.                                       *)
(***************************************************************************)
\* the list without its k-th element
WithoutIndex(items, k) ==
  [j \in 1..(Len(items) - 1) |-> IF j < k THEN items[j] ELSE items[j + 1]]

C28_RemoveItemFrame ==
  [][Len(trackedItems') < Len(trackedItems) =>
       \E k \in DOMAIN trackedItems :
         LET removed == trackedItems[k]
         IN  /\ trackedItems' = WithoutIndex(trackedItems, k)
             /\ \A j \in DOMAIN trackedItems' :
                  trackedItems'[j].id # removed.id
             /\ DOMAIN marketData' =
                  {key \in DOMAIN marketData : <<key>> # removed.id}
             /\ \A key \in DOMAIN marketData' :
                  marketData'[key] = marketData[key]
             /\ removed.itemId \in DOMAIN marketData =>
                  /\ removed.itemId \in DOMAIN marketData'
                  /\ marketData'[removed.itemId] = marketData[removed.itemId]
    ]_allVars

\* a snapshot is stored for an item that is tracked no more
C28_Witness ==
  /\ inFlight = {}
  /\ \E key \in DOMAIN marketData :
       /\ ~ Includes(ItemIdsOf(trackedItems), key)
       /\ marketData[key].prices # <<>>

\* C29: the step in which addItem fails on its fetch leaves trackedItems,
\* marketData and the persisted list unchanged, sets the error to the
\* message of the failure and loading to false, and rejects, so that the
\* loop of the bulk add starts no further addItem.
C29_AddItemFailure ==
  [][returned'.outcome = "rejected" =>
       /\ UNCHANGED <<trackedItems, marketData, storage>>
       /\ error' = [message |-> ApiError.message]
       /\ loading' = FALSE
       /\ \A call \in inFlight' : call.function # "addItem"
    ]_allVars

\* the first addItem of a bulk add of two items was rejected
C29_Witness ==
  /\ returned.outcome = "rejected"
  /\ returned.queue # <<>>
  /\ error = [message |-> ApiError.message]
  /\ ~loading
  /\ \A call \in inFlight : call.function # "addItem"

\* C24: once the calls of addItem and removeItem are completed, the list
\* persisted under the key "trackedItems" equals trackedItems.
C24_PersistedEqualsTracked ==
  (inFlight = {} /\ "trackedItems" \in DOMAIN storage) =>
    storage["trackedItems"] = trackedItems

\* the time of the request that fetched a stored snapshot
FetchedAt(data) == data.prices[1].buy_price_max_date

\* C22: the cycles of refreshPrices and addItem are serialized, so that no
\* step replaces the stored prices of an item by prices of a fetch that
\* started earlier than the fetch of the prices it replaces.
C22_NoStaleOverwrite ==
  [][\A key \in DOMAIN marketData \cap DOMAIN marketData' :
       (marketData[key].prices # <<>> /\ marketData'[key].prices # <<>>) =>
         FetchedAt(marketData'[key]) >= FetchedAt(marketData[key])
    ]_allVars

\* C23: when addItem(itemId) has returned without an error, trackedItems has
\* an entry with that itemId, marketData[itemId] holds the prices that the
\* call fetched, and loading is false.
C23_AddItemPostcondition ==
  returned.outcome = "fulfilled" =>
    /\ Includes(ItemIdsOf(trackedItems), returned.itemId)
    /\ returned.itemId \in DOMAIN marketData
    /\ marketData[returned.itemId].prices = returned.prices
    /\ ~loading

\* the call that started its request at the given time waits for an answer
PendingSince(time) == \E call \in Pending : call.time = time

\* C30: every started refreshPrices, refreshHistory and addItem sets loading
\* back to false when it ends, whether its fetch is answered, fails or is
\* not made: a call that waits is followed by a state in which it waits no
\* more and loading is false, and loading is false whenever no call waits.
C30_LoadingReturnsToFalse ==
  /\ [](Pending = {} => ~loading)
  /\ \A time \in 1..MaxCalls :
       PendingSince(time) ~> (~PendingSince(time) /\ ~loading)

\* all the calls of a behaviour have ended, one of them with a failure
C30_Witness ==
  /\ now = MaxCalls
  /\ inFlight = {}
  /\ error # Null
  /\ historicalData # EmptyObject
  /\ ~loading

====
